---- MODULE Spec2Model ----
(***************************************************************************)
(* The message aggregation and dispatch core of src/main.py: the webhook   *)
(* handler that buffers accepted messages per sender and the delayed       *)
(* process_aggregated_messages task that snapshots a sender's buffer and   *)
(* hands the combined text to the agent.                                   *)
(* With them: the temporary file of transcribe_base64_audio and the voice  *)
(* reply of process_chunks (src/app/agent/utils/graph_utils.py).           *)
(*                                                                         *)
(* The program runs on one asyncio event loop, so code between two awaits  *)
(* is one atomic step.  webhook_handler has no real suspension point (the  *)
(* awaited transcribe_base64_audio never yields), so it is one action.     *)
(* process_aggregated_messages suspends twice: in asyncio.sleep (line 76)  *)
(* and in the agent call (line 99).                                        *)
(*                                                                         *)
(* JSON values of a payload are written as strings: "true" and "false"     *)
(* for the booleans, Absent for a key that is not in the payload and Null  *)
(* for a JSON null.  A sender with no entry in message_buffers (a          *)
(* defaultdict) and one with an empty list there are the same state.       *)
(***************************************************************************)
EXTENDS Integers, Sequences, FiniteSets, TLC

\* ------------------------------------------------------------------ bounds

\* Number of requests that may be accepted (answered "aggregating").
MaxMsgs == 3

\* The same, where every payload of Payloads is tried (IngressSpec).
MaxIngressMsgs == 2

\* Number of temporary audio files that may be left behind.
MaxTmpFiles == 1

\* Number of requests that may be accepted where every reply of Chunks is tried
\* (VoiceSpec).
MaxVoiceMsgs == 2

\* ---------------------------------------------------------- program constants

\* src/main.py:19, the default of WAIT_TIME, as int(WAIT_TIME) of line 76.
WAIT_TIME == 1

Absent == "<absent>"
Null == "<null>"

SenderIds == {"5511@c.us", "5522@g.us"}

Texts == {"Oi", "tudo bem?"}

\* Bodies of voice notes: base64 text that decodes, and the transcription of each.
AudioBodies == {"b2xh"}

Transcript(body) == "ola"

NoTask == 0

NoResponse == [status |-> "-", code |-> 0]

\* ------------------------------------------------------------------ state

VARIABLES
    message_buffers,   \* sender id -> sequence of buffered texts
    processing_tasks,  \* sender id -> id of the task recorded for it, or NoTask
    tasks,             \* every process_aggregated_messages task created so far
    now,               \* the clock, in seconds
    buffer_ids,        \* history: sender id -> ids of the buffered messages
    accepted,          \* history: the accepted messages, in arrival order
    agent_calls,       \* history: the calls main(phone_number, combined_message)
    response,          \* the response of the last step, when it handled a request
    tmp_files          \* number of temporary audio files on disk

vars == <<message_buffers, processing_tasks, tasks, now,
          buffer_ids, accepted, agent_calls, response, tmp_files>>

TaskIds == 1..Len(tasks)

MsgIds == 1..Len(accepted)

\* ------------------------------------------------------------ pure functions

\* Index of the first "@" of s at or after i, 0 when there is none.
RECURSIVE FindAt(_, _)
FindAt(s, i) ==
    IF i > Len(s) THEN 0
    ELSE IF SubSeq(s, i, i) = "@" THEN i
    ELSE FindAt(s, i + 1)

\* sender_id.split("@")[0]
PhoneNumber(sender_id) ==
    LET i == FindAt(sender_id, 1)
    IN  IF i = 0 THEN sender_id ELSE SubSeq(sender_id, 1, i - 1)

\* " ".join(messages)
RECURSIVE JoinMessages(_)
JoinMessages(messages) ==
    IF Len(messages) = 0 THEN ""
    ELSE IF Len(messages) = 1 THEN messages[1]
    ELSE messages[1] \o " " \o JoinMessages(Tail(messages))

\* ------------------------------------------------------------------ payloads

Payload(event, isNewMsg, type, body, session, sender_id, sender_isUser, isGroupMsg) ==
    [event |-> event, isNewMsg |-> isNewMsg, type |-> type, body |-> body,
     session |-> session, sender_id |-> sender_id,
     sender_isUser |-> sender_isUser, isGroupMsg |-> isGroupMsg]

\* Well-formed text messages of the first sender.
TextPayloads ==
    { Payload("onmessage", "true", ty, f[1], f[2], "5511@c.us", f[3], f[4]) :
        ty \in {"chat", "list_response"},
        f \in {<<"Oi", "s1", "true", "false">>,
               <<"tudo bem?", "s2", "false", "true">>} }

\* Voice notes of the second sender: audio that decodes, and a body that is no
\* base64 text.
VoicePayloads ==
    { Payload("onmessage", "true", "ptt", b, "s1", "5522@g.us", "true", "false") :
        b \in AudioBodies \cup {"Oi"} }

\* Payloads the filter of lines 145-150 is to turn away.
OtherPayloads ==
    { Payload(f[1], f[2], f[3], "Oi", ses, s, "true", "false") :
        f \in {<<"onack", "true", "chat">>, <<"onmessage", "false", "chat">>,
               <<"onmessage", Absent, "ptt">>, <<"onmessage", "true", "image">>,
               <<"onmessage", "true", Absent>>, <<Absent, "false", "sticker">>,
               <<"onack", "true", "image">>},
        ses \in {"s1"}, s \in {"5511@c.us"} }

\* Payloads that pass the filter with a required field missing or malformed.
BrokenPayloads ==
    { Payload("onmessage", "true", "chat", f[1], f[2], f[3], f[4], f[5]) :
        f \in {<<"Oi", Absent, "5511@c.us", "true", "false">>,
               <<"Oi", Null, "5511@c.us", "true", "false">>,
               <<"Oi", "s1", Absent, "true", "false">>,
               <<"Oi", "s1", "5522@g.us", Absent, "false">>,
               <<"Oi", "s1", "5522@g.us", "true", Absent>>,
               <<Null, "s1", "5511@c.us", "true", "false">>} }

Payloads == TextPayloads \cup VoicePayloads \cup OtherPayloads \cup BrokenPayloads

\* What the handler's calls into the system meet: whether tmp_file.write of
\* line 55 succeeds (it raises OSError on a full disk) and whether the
\* transcription call of line 60 succeeds.
IOs == [disk_ok : BOOLEAN, groq_ok : BOOLEAN]

AllOk == [disk_ok |-> TRUE, groq_ok |-> TRUE]

\* A request: a payload and what its calls meet, which matters only to a voice
\* note whose body decodes (lines 155 and 51).
Requests ==
    {r \in Payloads \X IOs :
        (r[1].type = "ptt" /\ r[1].body \in AudioBodies) \/ r[2] = AllOk}

\* The requests tried where the windows are the subject (Spec): two texts of the
\* first sender, a voice note of the second, and a payload that is filtered out.
CoreRequests ==
    {r \in Requests :
        r[2] = AllOk /\ r[1] \in {Payload("onmessage", "true", "chat", "Oi", "s1",
                          "5511@c.us", "true", "false"),
                  Payload("onmessage", "true", "list_response", "tudo bem?", "s2",
                          "5511@c.us", "false", "true"),
                  Payload("onmessage", "true", "ptt", "b2xh", "s1",
                          "5522@g.us", "true", "false"),
                  Payload("onmessage", "true", "image", "Oi", "s1",
                          "5511@c.us", "true", "false")}}

\* ------------------------------------------------------------------ replies

\* A chunk of the agent's output as process_chunks looks at it: whether it is
\* a dict, whether the value of its first key has "messages", the class of
\* that message, whether message.content is a str or a list, the content, and
\* whether message.tool_calls is non-empty.
Chunk(type, has_messages, message_class, content_type, content, tool_calls) ==
    [type |-> type, has_messages |-> has_messages,
     message_class |-> message_class, content_type |-> content_type,
     content |-> content, tool_calls |-> tool_calls]

\* An AI message with string content and no tool call.
DirectAnswer == Chunk("dict", TRUE, "AIMessage", "str", "Posso ajudar?", FALSE)

\* An AI message that calls a tool.
ToolCall == Chunk("dict", TRUE, "AIMessage", "str", "", TRUE)

Chunks ==
    {DirectAnswer, ToolCall,
     Chunk("dict", TRUE, "AIMessage", "str", "Um momento", TRUE),
     Chunk("dict", TRUE, "AIMessage", "list", "", FALSE),
     Chunk("dict", TRUE, "ToolMessage", "str", "42", FALSE),
     Chunk("dict", FALSE, "-", "str", "", FALSE),
     Chunk("str", FALSE, "-", "str", "", FALSE)}

\* The reply where the windows are the subject (Spec).
CoreChunks == {DirectAnswer}

NoChunk == Chunk("-", FALSE, "-", "-", "", FALSE)

\* process_chunks, graph_utils.py lines 41-90: the texts handed to gTTS
\* (line 83) and the calls send_voice(audio_path, phone_number) of line 90,
\* each with the text its audio was made of.
process_chunks_AnyString(chunk, phone_number) ==
    IF /\ chunk.type = "dict"
       /\ chunk.has_messages
       /\ chunk.message_class = "AIMessage"
       /\ chunk.content_type = "str"
    THEN [tts |-> <<chunk.content>>,
          send_voice |-> <<[audio_of |-> chunk.content, to |-> phone_number]>>]
    ELSE [tts |-> <<>>, send_voice |-> <<>>]

process_chunks(chunk, phone_number) ==
    IF /\ chunk.type = "dict"                  \* line 56
       /\ chunk.has_messages                   \* line 57
       /\ chunk.message_class = "AIMessage"    \* line 60
       /\ chunk.content_type = "str"           \* line 66
       /\ ~chunk.tool_calls                    \* line 67
    THEN [tts |-> <<chunk.content>>,
          send_voice |-> <<[audio_of |-> chunk.content, to |-> phone_number]>>]
    ELSE [tts |-> <<>>, send_voice |-> <<>>]

\* main of app.agent, called at main.py line 99: the agent is invoked with the
\* plain identifier and the combined text, and its terminal reply is handed to
\* process_chunks with the plain identifier.
main(phone_number, combined_message, reply) == process_chunks(reply, phone_number)

\* ------------------------------------------------------------------ ingress

\* The filter of lines 145-150 (data.get gives None for an absent key).
MatchesCriteria_AnyType(data) ==
    /\ data.event = "onmessage"
    /\ data.isNewMsg = "true"
    /\ data.type # Absent

MatchesCriteria(data) ==
    /\ data.event = "onmessage"
    /\ data.isNewMsg = "true"
    /\ data.type \in {"chat", "list_response", "ptt"}

\* base64.b64decode accepts the body.
IsBase64(body) == body \in AudioBodies

\* transcribe_base64_audio, lines 47-67, statement by statement.  The temporary
\* file is made with delete=False, so leaving the with block of line 54 closes
\* it and does not remove it.  tmp_file_path is bound at line 56 only; the
\* finally block reads it at line 66, which raises UnboundLocalError in place
\* of the first exception when line 56 was not reached, and unlinks the file
\* otherwise.  tmp_left is the number of files of this call that exist when it
\* returns or raises.
transcribe_base64_audio(base64_audio, io) ==
    LET decoded == IsBase64(base64_audio)          \* line 51
        created == decoded                         \* line 54
        written == created /\ io.disk_ok           \* line 55
        path_bound == written                      \* line 56
        transcribed == path_bound /\ io.groq_ok    \* lines 58-62
        unlinked == path_bound                     \* lines 66-67
    IN  [raised |-> ~transcribed,
         text |-> IF transcribed THEN Transcript(base64_audio) ELSE "",
         tmp_left |-> IF created /\ ~unlinked THEN 1 ELSE 0]

\* Lines 152-169: the text of the message, or the exception of line 167.
MessageText(data, io) ==
    LET body == IF data.body = Absent THEN "" ELSE data.body
    IN  IF data.type = "ptt"
        THEN transcribe_base64_audio(body, io)
        ELSE [raised |-> FALSE, text |-> body, tmp_left |-> 0]

\* Lines 172-182: the subscripts data[...] find their keys and pydantic accepts
\* the values (event, type and isNewMsg passed the filter already).
Validates(data, message_text) ==
    /\ data.session \notin {Absent, Null}
    /\ message_text # Null
    /\ data.sender_id \notin {Absent, Null}
    /\ data.sender_isUser \in {"true", "false"}
    /\ data.isGroupMsg \in {"true", "false"}

\* Lines 151-187: the handler gets as far as the append of line 187, which
\* comes after the transcription and after the parse of lines 172-182.
ReachesAppend_BeforeParse(data, io) ==
    /\ MatchesCriteria(data)
    /\ ~MessageText(data, io).raised
    /\ MessageText(data, io).text # Null
    /\ data.sender_id \in SenderIds

ReachesAppend(data, io) ==
    /\ MatchesCriteria(data)
    /\ ~MessageText(data, io).raised
    /\ Validates(data, MessageText(data, io).text)

\* Lines 151-216, the inner try: every exception raised in it, the
\* HTTPException(422) of line 167 included, is caught by the except Exception
\* of line 212 and replaced by the HTTPException(422) of line 214.
InnerTry(data, io) ==
    IF \/ MessageText(data, io).raised
       \/ ~Validates(data, MessageText(data, io).text)
    THEN [raised |-> TRUE, class |-> "HTTPException", status_code |-> 422]
    ELSE [raised |-> FALSE, class |-> "-", status_code |-> 0]

\* Lines 143-229, the outer try.  The HTTPException of line 214 is raised inside
\* it and HTTPException is a subclass of Exception, so the except Exception of
\* line 225 catches it and raises HTTPException(500) in its place.
Respond(data, io) ==
    IF MatchesCriteria(data)
    THEN IF InnerTry(data, io).raised
         THEN [status |-> "error", code |-> 500]
         ELSE [status |-> "aggregating", code |-> 200]
    ELSE [status |-> "received", code |-> 200]

\* ------------------------------------------------------------------ history

\* The ids of the buffered messages, kept in line with the buffers new_buffers
\* that a step leaves: a buffer that grew took the message id, a buffer that was
\* emptied holds no message.
Mirror(new_buffers, id) ==
    [x \in SenderIds |->
        IF new_buffers[x] = <<>> THEN <<>>
        ELSE IF Len(new_buffers[x]) > Len(message_buffers[x])
             THEN Append(buffer_ids[x], id)
             ELSE buffer_ids[x]]

\* ------------------------------------------------------------------ actions

Init ==
    /\ message_buffers = [s \in SenderIds |-> <<>>]
    /\ processing_tasks = [s \in SenderIds |-> NoTask]
    /\ tasks = <<>>
    /\ now = 0
    /\ buffer_ids = [s \in SenderIds |-> <<>>]
    /\ accepted = <<>>
    /\ agent_calls = <<>>
    /\ response = NoResponse
    /\ tmp_files = 0

\* Line 187.
AppendedBuffer_Shared(sender_id, body) ==
    [x \in SenderIds |-> Append(message_buffers[x], body)]

AppendedBuffer(sender_id, body) ==
    [message_buffers EXCEPT ![sender_id] = Append(@, body)]

\* Line 190.
IsFirstMessage(sender_id) == processing_tasks[sender_id] = NoTask

\* Lines 191-198: the coroutine object and its arguments; it starts sleeping
\* (line 76) when the handler returns.
NewTask(sender_id, session, is_user, is_group, created_by) ==
    [sender_id |-> sender_id, session |-> session, is_user |-> is_user,
     is_group |-> is_group, pc |-> "sleeping", deadline |-> now + WAIT_TIME,
     phone_number |-> "", combined_message |-> "",
     created_by |-> created_by, snapshot |-> <<>>, snapshot_at |-> 0,
     reply |-> NoChunk, tts |-> <<>>, send_voice |-> <<>>]

\* Lines 87 and 118.
ClearedBuffer_Kept(sender_id) == message_buffers

ClearedBuffer(sender_id) == [message_buffers EXCEPT ![sender_id] = <<>>]

\* Lines 90-91 and 119-120.
WithoutTask_Kept(sender_id) == processing_tasks

WithoutTask(sender_id) == [processing_tasks EXCEPT ![sender_id] = NoTask]

\* History: the agent calls of the sender that have raised so far.
Failures(sender_id) ==
    Cardinality({t \in TaskIds :
                    tasks[t].sender_id = sender_id /\ tasks[t].pc = "raised"})

\* Lines 155-159: the temporary files a request leaves on disk; only a voice
\* note that passed the filter is transcribed.
TmpLeft(data, io) ==
    IF MatchesCriteria(data) /\ data.type = "ptt"
    THEN MessageText(data, io).tmp_left
    ELSE 0

\* webhook_handler, lines 136-229.
webhook_handler(data, io) ==
    LET sender_id == data.sender_id
        body == MessageText(data, io).text
        id == Len(accepted) + 1
        first == IsFirstMessage(sender_id)
        window == IF first THEN Len(tasks) + 1 ELSE processing_tasks[sender_id]
    IN  /\ response' = Respond(data, io)
        /\ tmp_files' = tmp_files + TmpLeft(data, io)
        /\ tmp_files' <= MaxTmpFiles
        /\ UNCHANGED <<now, agent_calls>>
        /\ IF ReachesAppend(data, io)
           THEN /\ Len(accepted) < MaxMsgs
                /\ message_buffers' = AppendedBuffer(sender_id, body)
                /\ buffer_ids' = Mirror(message_buffers', id)
                /\ accepted' = Append(accepted,
                        [sender_id |-> sender_id, body |-> body, at |-> now,
                         window |-> window, failures |-> Failures(sender_id),
                         session |-> data.session,
                         is_user |-> (data.sender_isUser = "true"),
                         is_group |-> (data.isGroupMsg = "true")])
                /\ IF first
                   THEN /\ tasks' = Append(tasks,
                                NewTask(sender_id, data.session,
                                        data.sender_isUser = "true",
                                        data.isGroupMsg = "true", id))
                        /\ processing_tasks' =
                                [processing_tasks EXCEPT ![sender_id] = Len(tasks) + 1]
                   ELSE UNCHANGED <<tasks, processing_tasks>>
           ELSE UNCHANGED <<message_buffers, buffer_ids, accepted, tasks,
                            processing_tasks>>

Sleeping == {t \in TaskIds : tasks[t].pc = "sleeping"}

\* Line 80, `if not messages`.
NotMessages_Never(messages) == FALSE

NotMessages(messages) == messages = <<>>

\* process_aggregated_messages, lines 76-99: the sleep is over; the task takes
\* its snapshot and calls the agent, or returns on an empty buffer (line 81).
\* Timers of one duration expire in the order they were started.
TimerFires(t) ==
    /\ t \in Sleeping
    /\ tasks[t].deadline <= now
    /\ \A u \in Sleeping : t <= u
    /\ LET sender_id == tasks[t].sender_id
           messages == message_buffers[sender_id]
           combined_message == JoinMessages(messages)
           phone_number == PhoneNumber(sender_id)
       IN  IF NotMessages(messages)
           THEN /\ tasks' = [tasks EXCEPT ![t].pc = "empty"]
                /\ UNCHANGED <<message_buffers, processing_tasks, buffer_ids,
                               agent_calls>>
           ELSE /\ message_buffers' = ClearedBuffer(sender_id)
                /\ buffer_ids' = Mirror(message_buffers', 0)
                /\ processing_tasks' = WithoutTask(sender_id)
                /\ tasks' = [tasks EXCEPT ![t].pc = "calling",
                                          ![t].combined_message = combined_message,
                                          ![t].phone_number = phone_number,
                                          ![t].snapshot = buffer_ids[sender_id],
                                          ![t].snapshot_at = now]
                /\ agent_calls' = Append(agent_calls,
                        [task |-> t, phone_number |-> phone_number,
                         combined_message |-> combined_message])
    /\ response' = NoResponse
    /\ UNCHANGED <<now, accepted, tmp_files>>

\* Lines 99-113: the agent replies, what main did with the reply is done, and
\* the task returns its result.
AgentReturns(t, reply) ==
    /\ t \in TaskIds
    /\ tasks[t].pc = "calling"
    /\ LET out == main(tasks[t].phone_number, tasks[t].combined_message, reply)
       IN  tasks' = [tasks EXCEPT ![t].pc = "returned",
                                  ![t].reply = reply,
                                  ![t].tts = out.tts,
                                  ![t].send_voice = out.send_voice]
    /\ response' = NoResponse
    /\ UNCHANGED <<message_buffers, processing_tasks, now, buffer_ids, accepted,
                   agent_calls, tmp_files>>

\* Lines 103-113: the result of a task that returned; agent_response is what
\* the agent replied.
DispatchResult(t) ==
    [status |-> "success",
     processed_data |-> [session |-> tasks[t].session,
                         message |-> tasks[t].combined_message,
                         sender_id |-> tasks[t].sender_id,
                         is_user |-> tasks[t].is_user,
                         is_group |-> tasks[t].is_group],
     agent_response |-> tasks[t].reply]

\* Lines 99 and 115-121: the agent call raises and the handler clears the
\* sender's buffer and entry before it raises again.
AgentRaises(t) ==
    /\ t \in TaskIds
    /\ tasks[t].pc = "calling"
    /\ message_buffers' = ClearedBuffer(tasks[t].sender_id)
    /\ buffer_ids' = Mirror(message_buffers', 0)
    /\ processing_tasks' = WithoutTask(tasks[t].sender_id)
    /\ tasks' = [tasks EXCEPT ![t].pc = "raised"]
    /\ response' = NoResponse
    /\ UNCHANGED <<now, accepted, agent_calls, tmp_files>>

\* A second passes.  asyncio.sleep wakes its task when the deadline is reached,
\* so the clock does not pass a deadline that is due.  Time is observed only
\* while a timer is pending: with none, its passing changes nothing.
Tick ==
    /\ Sleeping # {}
    /\ \A t \in Sleeping : tasks[t].deadline > now
    /\ now' = now + 1
    /\ response' = NoResponse
    /\ UNCHANGED <<message_buffers, processing_tasks, tasks, buffer_ids, accepted,
                   agent_calls, tmp_files>>

Next ==
    \/ \E r \in CoreRequests : webhook_handler(r[1], r[2])
    \/ \E t \in 1..MaxMsgs : TimerFires(t)
    \/ \E t \in 1..MaxMsgs : \E c \in CoreChunks : AgentReturns(t, c)
    \/ \E t \in 1..MaxMsgs : AgentRaises(t)
    \/ Tick

Spec == Init /\ [][Next]_vars

\* The same program with every payload of Payloads tried, on fewer messages.
IngressNext ==
    \/ \E r \in Requests :
          webhook_handler(r[1], r[2]) /\ Len(accepted') <= MaxIngressMsgs
    \/ \E t \in 1..MaxMsgs : TimerFires(t)
    \/ \E t \in 1..MaxMsgs : \E c \in CoreChunks : AgentReturns(t, c)
    \/ \E t \in 1..MaxMsgs : AgentRaises(t)
    \/ Tick

IngressSpec == Init /\ [][IngressNext]_vars

\* The same program with every reply of Chunks tried, on fewer messages.
VoiceNext ==
    \/ \E r \in CoreRequests :
          webhook_handler(r[1], r[2]) /\ Len(accepted') <= MaxVoiceMsgs
    \/ \E t \in 1..MaxMsgs : TimerFires(t)
    \/ \E t \in 1..MaxMsgs : \E c \in Chunks : AgentReturns(t, c)
    \/ \E t \in 1..MaxMsgs : AgentRaises(t)
    \/ Tick

VoiceSpec == Init /\ [][VoiceNext]_vars

\* Time passes, a timer that is due fires, and every agent call returns or raises.
FairSpec ==
    /\ Spec
    /\ WF_vars(Tick)
    /\ \A t \in 1..MaxMsgs : WF_vars(TimerFires(t))
    /\ \A t \in 1..MaxMsgs :
          WF_vars((\E c \in CoreChunks : AgentReturns(t, c)) \/ AgentRaises(t))

\* ------------------------------------------------------------- vocabulary

\* The two states of a sender.
Idle(s) == processing_tasks[s] = NoTask /\ message_buffers[s] = <<>>

\* The task's sleep is over.
Fired(t) == tasks[t].pc # "sleeping"

\* The task handed a snapshot to the agent.
Called(t) == tasks[t].pc \in {"calling", "returned", "raised"}

Range(f) == {f[k] : k \in DOMAIN f}

\* The ids of the messages accepted into window t (while t was the sender's
\* recorded task), in arrival order.
WindowIds(t) ==
    SelectSeq([i \in MsgIds |-> i], LAMBDA i : accepted[i].window = t)

BodiesOf(ids) == [k \in DOMAIN ids |-> accepted[ids[k]].body]

\* The texts joined with single spaces, in order.
RECURSIVE SpaceJoined(_)
SpaceJoined(texts) ==
    IF Len(texts) = 0 THEN ""
    ELSE IF Len(texts) = 1 THEN texts[1]
    ELSE SpaceJoined(SubSeq(texts, 1, Len(texts) - 1)) \o " " \o texts[Len(texts)]

\* The tasks whose agent call took some message of ids.
CallersOf(ids) ==
    {u \in TaskIds : Called(u) /\ Range(tasks[u].snapshot) \cap Range(ids) # {}}

\* ------------------------------------------------------------------ claims

\* C1 (coalescing): the messages accepted into a window (a first message of an
\* Idle sender and those that arrive before the window's timer fires) are, once
\* the timer has fired, the subject of exactly one agent invocation, whose
\* combined text is their texts joined with single spaces in arrival order.
C1_Coalescing ==
    \A t \in TaskIds :
        Fired(t) =>
            LET w == WindowIds(t)
            IN  /\ Cardinality(CallersOf(w)) = 1
                /\ \A u \in CallersOf(w) :
                      /\ tasks[u].snapshot = w
                      /\ tasks[u].combined_message = SpaceJoined(BodiesOf(w))

\* C2 (single window per sender): no sender has two tasks that are still
\* waiting for their deadline.
C2_SingleWindow ==
    \A s \in SenderIds :
        Cardinality({t \in Sleeping : tasks[t].sender_id = s}) <= 1

\* C3 (no lost messages): once no task of a sender is waiting or calling the
\* agent any more, every accepted message of that sender was part of the
\* combined text of some agent invocation.
C3_NoLostMessages ==
    \A s \in SenderIds :
        (\A t \in TaskIds :
            tasks[t].sender_id = s => tasks[t].pc \notin {"sleeping", "calling"})
        => \A i \in MsgIds :
              accepted[i].sender_id = s =>
                  \E u \in TaskIds : Called(u) /\ i \in Range(tasks[u].snapshot)

\* A timer that fires on a non-empty buffer makes one agent call with the whole
\* buffer, joined, and leaves the buffer empty.
C4_SnapshotStep ==
    \A t \in 1..MaxMsgs :
        (TimerFires(t) /\ message_buffers[tasks[t].sender_id] # <<>>) =>
            /\ message_buffers'[tasks[t].sender_id] = <<>>
            /\ Len(agent_calls') = Len(agent_calls) + 1
            /\ agent_calls'[Len(agent_calls')].task = t
            /\ agent_calls'[Len(agent_calls')].combined_message =
                    SpaceJoined(message_buffers[tasks[t].sender_id])
            /\ tasks'[t].snapshot = buffer_ids[tasks[t].sender_id]

\* Every task that called the agent did so once, and no message is part of two
\* snapshots or twice in one.
C4_CalledOnce ==
    /\ \A t \in TaskIds :
          Cardinality({c \in DOMAIN agent_calls : agent_calls[c].task = t})
              = IF Called(t) THEN 1 ELSE 0
    /\ \A i \in MsgIds :
          Cardinality({u \in TaskIds : Called(u) /\ i \in Range(tasks[u].snapshot)}) <= 1
    /\ \A u \in TaskIds :
          Cardinality(Range(tasks[u].snapshot)) = Len(tasks[u].snapshot)

\* C4 (no double dispatch): a timer that fires on a non-empty buffer hands the
\* snapshot to the agent exactly once and leaves the sender's buffer empty,
\* and no accepted message is ever part of two agent invocations.
C4_NoDoubleDispatch == [][C4_SnapshotStep]_vars /\ []C4_CalledOnce

\* A window of two messages was dispatched and its sender's buffer is empty.
C4_Witness ==
    \E t \in TaskIds :
        /\ tasks[t].pc = "calling"
        /\ Len(tasks[t].snapshot) = 2
        /\ message_buffers[tasks[t].sender_id] = <<>>

\* An agent call that raises leaves its sender Idle.
C5_IdleAfterRaise ==
    \A t \in 1..MaxMsgs : AgentRaises(t) => Idle(tasks[t].sender_id)'

\* Message i is the first that its sender had accepted after an agent call of
\* that sender raised.
NextAfterFailure(i) ==
    LET before == {j \in MsgIds : j < i /\ accepted[j].sender_id = accepted[i].sender_id}
    IN  /\ accepted[i].failures > 0
        /\ \A j \in before : accepted[j].failures < accepted[i].failures

\* The next message after a failure starts a window of its own, and once that
\* window's timer has fired its messages were handed to the agent together.
C5_FreshWindow ==
    \A i \in MsgIds :
        NextAfterFailure(i) =>
            LET w == accepted[i].window
            IN  /\ tasks[w].created_by = i
                /\ Fired(w) =>
                      \E u \in TaskIds :
                          Called(u) /\ tasks[u].snapshot = WindowIds(w)

\* C5 (failure recovery): an agent call that raises leaves its sender Idle; the
\* next message accepted from that sender starts a window of its own; and once
\* that window's timer has fired, the messages of that window were handed to
\* the agent together, with no other message.
C5_FailureRecovery == [][C5_IdleAfterRaise]_vars /\ []C5_FreshWindow

\* The step leaves the buffer and the recorded task of sender s as they were.
Untouched(s) ==
    /\ message_buffers'[s] = message_buffers[s]
    /\ processing_tasks'[s] = processing_tasks[s]

\* The step is taken for sender s: it accepts a message of s, or a task of s
\* moves on.
ActsFor(s) ==
    \/ /\ Len(accepted') > Len(accepted)
       /\ accepted'[Len(accepted')].sender_id = s
    \/ \E t \in TaskIds : tasks[t].sender_id = s /\ tasks'[t].pc # tasks[t].pc

\* A step taken for one sender touches no other sender, and a step taken for
\* no sender touches none.
C6_Frame ==
    \A s \in SenderIds :
        /\ ActsFor(s) => \A o \in SenderIds \ {s} : Untouched(o)
        /\ ~ActsFor(s) => Untouched(s)

\* The messages of a snapshot are all of the task's own sender, and the timer
\* that is due next can fire whatever agent calls are in flight.
C6_OwnMessages ==
    /\ \A t \in TaskIds :
          \A i \in Range(tasks[t].snapshot) :
              accepted[i].sender_id = tasks[t].sender_id
    /\ \A t \in Sleeping :
          (tasks[t].deadline <= now /\ \A u \in Sleeping : t <= u)
              => ENABLED TimerFires(t)

\* C6 (isolation): a step taken for one sender leaves every other sender's
\* buffer and recorded task as they were; the messages of one agent invocation
\* are all of the invocation's sender; and a timer that is due is never kept
\* waiting by an agent call in flight.
C6_Isolation == [][C6_Frame]_vars /\ []C6_OwnMessages

\* The second sender's window was dispatched while the first sender's agent
\* call, started earlier, is still in flight.
C6_Witness ==
    \E a, b \in TaskIds :
        /\ a < b
        /\ tasks[a].sender_id = "5511@c.us" /\ tasks[a].pc = "calling"
        /\ tasks[b].sender_id = "5522@g.us" /\ tasks[b].pc = "calling"
        /\ message_buffers["5511@c.us"] # <<>>

\* The payload does not meet the criteria the specification gives.
FilteredOut(data) ==
    \/ data.event # "onmessage"
    \/ data.isNewMsg # "true"
    \/ data.type \notin {"chat", "list_response", "ptt"}

C7_Step ==
    \A r \in Requests :
        (FilteredOut(r[1]) /\ webhook_handler(r[1], r[2])) =>
            /\ response'.status = "received"
            /\ UNCHANGED <<message_buffers, processing_tasks, tasks>>

ClientFault(data, io) ==
    /\ ~FilteredOut(data)
    /\ \/ data.type = "ptt" /\ (data.body \notin AudioBodies \/ ~io.groq_ok)
       \/ data.session \in {Absent, Null}
       \/ data.sender_id \in {Absent, Null}

C8_Step ==
    \A r \in Requests :
        (ClientFault(r[1], r[2]) /\ webhook_handler(r[1], r[2])) =>
            response'.code = 422

\* C8 (client-error classification): a request that passes the filter and fails
\* because its audio cannot be decoded or transcribed, or because its session
\* or sender id is missing or malformed, is answered with HTTP 422.
C8_ClientError422 == [][C8_Step]_vars

C9_Step ==
    \/ UNCHANGED <<message_buffers, processing_tasks, tasks>>
    \/ \A r \in Requests :
          webhook_handler(r[1], r[2]) => response'.status = "aggregating"

\* C9 (state unchanged on rejection): a request that is not answered
\* "aggregating" changes no buffer, no recorded task and no task; that is, a
\* step leaves the three as they were unless it is a request answered
\* "aggregating" or no request at all.
C9_RejectionFrame == [][C9_Step]_vars

\* A request ended in an error while a window was open.
C9_Witness ==
    /\ response.status = "error"
    /\ \E s \in SenderIds : ~Idle(s)

\* A recorded task is a task of that sender that still waits for its deadline.
C10_HandlePending ==
    \A s \in SenderIds :
        processing_tasks[s] # NoTask =>
            /\ processing_tasks[s] \in Sleeping
            /\ tasks[processing_tasks[s]].sender_id = s

\* C10 (no permanently stuck sender): whatever agent calls return or raise,
\* every sender is in the end Idle for good, and a recorded task is always one
\* that is still waiting for its deadline, which clears the record when it fires.
C10_NoStuckSender ==
    /\ \A s \in SenderIds : <>[]Idle(s)
    /\ []C10_HandlePending

\* An agent call raised, a later window of the same sender was dispatched and
\* returned, and the sender is Idle with nothing pending.
C10_Witness ==
    \E t, u \in TaskIds :
        /\ t < u
        /\ tasks[t].sender_id = tasks[u].sender_id
        /\ tasks[t].pc = "raised"
        /\ tasks[u].pc = "returned"
        /\ Idle(tasks[t].sender_id)
        /\ Sleeping = {}

\* C11 (temporary resource release): no temporary audio file made by a call of
\* transcribe_base64_audio exists once the call has returned or raised, on
\* whichever path it left: with the transcription, on a transcription failure,
\* on a body that does not decode, or on a failure to write the audio.
C11_TempReleased == tmp_files = 0

\* The reply is an AI message with string content and no tool call.
IsDirectAnswer(reply) ==
    /\ reply.type = "dict" /\ reply.has_messages
    /\ reply.message_class = "AIMessage"
    /\ reply.content_type = "str" /\ ~reply.tool_calls

\* Task t offered text to voice synthesis once and sent the audio made of it
\* once, to its sender's plain identifier.
VoicedOnce(t, text) ==
    /\ tasks[t].tts = <<text>>
    /\ tasks[t].send_voice =
          <<[audio_of |-> text, to |-> PhoneNumber(tasks[t].sender_id)]>>

\* No voice reply for a reply that carries a tool call and none for an agent
\* call that failed.
NoVoiceOtherwise ==
    \A t \in TaskIds :
        \/ tasks[t].pc = "returned" /\ tasks[t].reply.tool_calls
        \/ tasks[t].pc = "raised"
        => tasks[t].send_voice = <<>>

\* C12 (voice reply branch), as stated: on a direct answer the combined text
\* is offered to voice synthesis once and the audio is sent once to the
\* sender's plain identifier; no voice reply on a tool call or a failed call.
C12_VoiceOfCombinedText ==
    /\ \A t \in TaskIds :
          (tasks[t].pc = "returned" /\ IsDirectAnswer(tasks[t].reply)) =>
              VoicedOnce(t, tasks[t].combined_message)
    /\ NoVoiceOtherwise

\* C12, amended: on a direct answer it is the agent's answer, the content of
\* the AI message, that is offered to voice synthesis once, and the audio made
\* of it is sent once to the sender's plain identifier; no voice reply on a
\* tool call or a failed call.
C12_VoiceOfAnswer ==
    /\ \A t \in TaskIds :
          (tasks[t].pc = "returned" /\ IsDirectAnswer(tasks[t].reply)) =>
              VoicedOnce(t, tasks[t].reply.content)
    /\ NoVoiceOtherwise

\* One agent call ended in a direct answer that was voiced, another in a tool
\* call with string content that was not voiced.
C12_Witness ==
    \E t, u \in TaskIds :
        /\ tasks[t].pc = "returned" /\ IsDirectAnswer(tasks[t].reply)
        /\ Len(tasks[t].send_voice) = 1
        /\ tasks[u].pc = "returned" /\ tasks[u].reply.tool_calls
        /\ tasks[u].reply.content # ""
        /\ tasks[u].send_voice = <<>>

\* C13 (two-state invariant): between any two steps a sender has a recorded
\* task exactly when its buffer is non-empty; it is Idle (no recorded task,
\* empty buffer) or Aggregating (recorded task, non-empty buffer).
C13_TwoStates ==
    \A s \in SenderIds :
        processing_tasks[s] # NoTask <=> message_buffers[s] # <<>>

\* One sender is Idle again after a failed agent call wiped its open window,
\* whose timer is still pending, while the other sender is Aggregating.
C13_Witness ==
    /\ \E t \in Sleeping :
          /\ Idle(tasks[t].sender_id)
          /\ \E u \in TaskIds :
                tasks[u].sender_id = tasks[t].sender_id /\ tasks[u].pc = "raised"
    /\ \E s \in SenderIds :
          processing_tasks[s] # NoTask /\ message_buffers[s] # <<>>

\* Every snapshot handed to the agent was taken WAIT_TIME after its earliest
\* message arrived.
C14_TakenAtDeadline ==
    \A t \in TaskIds :
        Called(t) =>
            tasks[t].snapshot_at = accepted[tasks[t].snapshot[1]].at + WAIT_TIME

\* A message that joins an open window starts no task and moves no deadline.
C14_JoinStep ==
    (/\ Len(accepted') > Len(accepted)
     /\ processing_tasks[accepted'[Len(accepted')].sender_id] # NoTask)
        => tasks' = tasks

\* C14 (fixed window deadline): every snapshot handed to the agent is taken
\* exactly WAIT_TIME after the arrival of its earliest message, never earlier,
\* and a message that joins a window neither moves the deadline nor starts
\* another task.
C14_FixedWindow == [][C14_JoinStep]_vars /\ []C14_TakenAtDeadline

\* The step accepts a message of sender s.
Accepts(s) ==
    /\ Len(accepted') > Len(accepted)
    /\ accepted'[Len(accepted')].sender_id = s

\* An agent call of sender s is in flight.
InFlight(s) == \E t \in TaskIds : tasks[t].sender_id = s /\ tasks[t].pc = "calling"

C15_Creation ==
    \A s \in SenderIds :
        Accepts(s) =>
            IF processing_tasks[s] = NoTask
            THEN /\ Len(tasks') = Len(tasks) + 1
                 /\ processing_tasks'[s] = Len(tasks')
                 /\ tasks'[Len(tasks')].sender_id = s
                 /\ tasks'[Len(tasks')].created_by = Len(accepted')
                 /\ tasks'[Len(tasks')].pc = "sleeping"
            ELSE /\ processing_tasks' = processing_tasks
                 /\ tasks' = tasks

\* The record of a sender is removed by a task of that sender, either when it
\* takes its snapshot, before its agent call starts, or when its call raises;
\* every snapshot removes it; and a record is never replaced by another.
C15_Removal ==
    /\ \A s \in SenderIds :
          (processing_tasks[s] # NoTask /\ processing_tasks'[s] # processing_tasks[s]) =>
              /\ processing_tasks'[s] = NoTask
              /\ \E t \in TaskIds :
                    /\ tasks[t].sender_id = s
                    /\ \/ tasks[t].pc = "sleeping" /\ tasks'[t].pc = "calling"
                       \/ tasks[t].pc = "calling" /\ tasks'[t].pc = "raised"
    /\ \A t \in TaskIds :
          (tasks[t].pc = "sleeping" /\ tasks'[t].pc = "calling") =>
              processing_tasks'[tasks[t].sender_id] = NoTask

\* No task whose timer has fired is recorded.
C15_NotRecordedOnceFired ==
    \A t \in TaskIds : Fired(t) => processing_tasks[tasks[t].sender_id] # t

C16_EmptyExpiryStep ==
    \A t \in TaskIds :
        (/\ tasks[t].pc = "sleeping" /\ tasks'[t].pc # "sleeping"
         /\ message_buffers[tasks[t].sender_id] = <<>>) =>
            /\ tasks'[t].pc = "empty"
            /\ UNCHANGED <<message_buffers, processing_tasks, agent_calls>>

\* No agent call has a snapshot of zero messages.
C16_NoEmptyCall ==
    /\ \A t \in TaskIds : Called(t) => tasks[t].snapshot # <<>>
    /\ \A c \in DOMAIN agent_calls :
          /\ Called(agent_calls[c].task)
          /\ agent_calls[c].combined_message =
                SpaceJoined(BodiesOf(tasks[agent_calls[c].task].snapshot))

\* The message that started a task that expired on an empty buffer was taken
\* out of the buffer by another task of the same sender: it is in that task's
\* snapshot, or that task's agent call raised after the message was accepted.
C16_ClearedByAnother ==
    \A t \in TaskIds :
        tasks[t].pc = "empty" =>
            \E u \in TaskIds \ {t} :
                /\ tasks[u].sender_id = tasks[t].sender_id
                /\ \/ Called(u) /\ tasks[t].created_by \in Range(tasks[u].snapshot)
                   \/ /\ tasks[u].pc = "raised"
                      /\ Failures(tasks[t].sender_id)
                            > accepted[tasks[t].created_by].failures

\* C16 (empty snapshot): a task whose deadline elapses on an empty buffer makes
\* no agent call and changes neither message_buffers nor processing_tasks; the
\* agent is never called with a snapshot of zero messages; and a task expires
\* on an empty buffer only after another task of the same sender cleared it.
C16_EmptySnapshot ==
    /\ [][C16_EmptyExpiryStep]_vars
    /\ [](C16_NoEmptyCall /\ C16_ClearedByAnother)

\* A task expired on an empty buffer while a newer window of its sender is open.
C16_Witness ==
    \E t \in TaskIds :
        /\ tasks[t].pc = "empty"
        /\ processing_tasks[tasks[t].sender_id] \notin {NoTask, t}

\* C17 (dispatch metadata): the session, is_user and is_group of a dispatch
\* result are those of the message that created the dispatching task, and for
\* every dispatch that message's text is among the texts of the combined text.
C17_DispatchMetadata ==
    \A t \in TaskIds :
        LET creator == accepted[tasks[t].created_by]
        IN  /\ tasks[t].pc = "returned" =>
                  /\ DispatchResult(t).processed_data.session = creator.session
                  /\ DispatchResult(t).processed_data.is_user = creator.is_user
                  /\ DispatchResult(t).processed_data.is_group = creator.is_group
            /\ Called(t) => creator.body \in Range(BodiesOf(tasks[t].snapshot))

====
